---------------------------- MODULE Spec2Model ----------------------------
(***************************************************************************)
(* Model of insiders_sniffer.py: pool discovery, the signature window      *)
(* fetcher, buyer extraction, the per-wallet aggregator and the run of     *)
(* main() up to the CSV report.                                            *)
(*                                                                         *)
(* Conventions.  An optional integer (dict.get of a numeric field) is a    *)
(* sequence: <<>> is None and <<n>> is the value n.  An optional string    *)
(* field is a string, with NoneStr standing for None.  A Python str that   *)
(* is parsed (an amount) is a sequence of characters.                      *)
(***************************************************************************)
EXTENDS Integers, Sequences, FiniteSets, TLC

VARIABLES
    \* ---- get_top_pairs_from_dexscreener
    pd_data,       \* the list returned by the market endpoint
    pd_top_n,      \* top_n
    pd_out,        \* the returned list
    pd_pc,         \* "call" | "returned"
    \* ---- extract_buyers_from_parsed_tx
    ex_tx,         \* the parsed transaction
    ex_out,        \* the returned list of observations
    ex_pc,         \* "call" | "returned"
    \* ---- fetch_signatures_in_window
    start_ts, end_ts,
    sigs,          \* sigs (the list under construction / returned)
    before,        \* the cursor, NoneStr when unset
    pages,         \* pages
    fpc,           \* "idle" | "loop" | "returned" | "raised"
    history,       \* the address's signature history, newest first
    limit,         \* page size served by the RPC
    cursors,       \* ghost: the cursor sent with each request
    served,        \* ghost: the page received for each request
    exit_by,       \* ghost: "none" | "early" | "empty"
    \* ---- main
    pc,            \* position in main()
    api_key,       \* os.getenv("HELIUS_KEY"), NoneStr when unset
    pairs,         \* pairs
    pool_i,        \* index in pairs of the pool being scanned
    chunk_i,       \* i of the parse-batch loop (0-based offset)
    parsed,        \* transactions of the current batch still to process
    buyers_agg,    \* buyers_agg
    csv_rows,      \* rows written to the output file
    csv_open,      \* whether the output file has been opened
    err,           \* the exception that ended the run, "none" if none
    failure,       \* ghost: an HTTP call failed or an RPC error was seen
    folded,        \* ghost: <<pool index, observation>> folded into buyers_agg
    arrived,       \* ghost: <<pool index, observation>> handed to the fold
    submitted,     \* ghost: <<pool index, signature>> of each signature posted
    handled,       \* ghost: <<pool index, signature>> of each transaction folded
    skipped        \* ghost: transactions dropped by the timestamp check

fetchVars == <<start_ts, end_ts, sigs, before, pages, fpc, history, limit,
               cursors, served, exit_by>>
pdVars == <<pd_data, pd_top_n, pd_out, pd_pc>>
exVars == <<ex_tx, ex_out, ex_pc>>
mainVars == <<pc, api_key, pairs, pool_i, chunk_i, parsed, buyers_agg,
              csv_rows, csv_open, err, failure, folded, arrived, submitted,
              handled, skipped>>
vars == <<pdVars, exVars, fetchVars, mainVars>>

----------------------------------------------------------------------------
(* Configuration constants *)

MINT == "MINT"
START_TS == 1760806800
END_TS == 1760864400

\* Scaled-down stand-ins for TOP_POOLS = 5, SIG_PAGE_LIMIT = 1000 and
\* PARSE_BATCH = 100.
TOP_POOLS == 2
SIG_PAGE_LIMIT == 2
PARSE_BATCH == 1

----------------------------------------------------------------------------
(* Python values *)

NoneStr == "<None>"
None == <<>>
Some(n) == <<n>>
IsNone(x) == x = <<>>
Val(x) == x[1]

\* truthiness of an optional string: None and "" are falsy
Truthy(s) == s # NoneStr /\ s # ""
\* a or b, on optional strings
Or(a, b) == IF Truthy(a) THEN a ELSE b
\* (x or 0), on optional numbers
OrZero(x) == IF IsNone(x) THEN 0 ELSE Val(x)

Min(a, b) == IF a <= b THEN a ELSE b
Max(a, b) == IF a >= b THEN a ELSE b

SeqsUpTo(S, n) == UNION {[1..k -> S] : k \in 0..n}

----------------------------------------------------------------------------
(* get_top_pairs_from_dexscreener *)

MkPair(a, b, q, l, v) ==
    [pairAddress |-> a, base |-> b, quote |-> q, liq |-> l, vol |-> v]

score(p) == (OrZero(p.liq) * 10) + OrZero(p.vol)

RECURSIVE InsertDesc_Unstable(_, _)
\* variant: a strict comparison, which puts p before the elements of equal score
InsertDesc_Unstable(s, p) ==
    IF s = <<>> THEN <<p>>
    ELSE IF score(Head(s)) > score(p)
         THEN <<Head(s)>> \o InsertDesc_Unstable(Tail(s), p)
         ELSE <<p>> \o s

RECURSIVE InsertDesc(_, _)
\* insert p into the descending list s after every element of score >= score(p)
InsertDesc(s, p) ==
    IF s = <<>> THEN <<p>>
    ELSE IF score(Head(s)) >= score(p) THEN <<Head(s)>> \o InsertDesc(Tail(s), p)
    ELSE <<p>> \o s

RECURSIVE SortedDesc(_)
\* sorted(data, key=score, reverse=True): stable, equal keys keep input order
SortedDesc(data) ==
    IF data = <<>> THEN <<>>
    ELSE InsertDesc(SortedDesc(SubSeq(data, 1, Len(data) - 1)), data[Len(data)])

IncludesMint(p, mint) == p.base = mint \/ p.quote = mint

RECURSIVE TopLoop(_, _, _, _)
\* the for loop over the sorted pairs, with its break
TopLoop(ps, mint, top_n, out) ==
    IF ps = <<>> THEN out
    ELSE LET out2 == IF IncludesMint(Head(ps), mint)
                     THEN Append(out, Head(ps)) ELSE out
         IN IF Len(out2) >= top_n THEN out2
            ELSE TopLoop(Tail(ps), mint, top_n, out2)

get_top_pairs_from_dexscreener(data, mint, top_n) ==
    TopLoop(SortedDesc(data), mint, top_n, <<>>)

----------------------------------------------------------------------------
(* Amount values: tokenAmount as it comes out of the JSON body *)

AsciiDigits == {"0", "1", "2", "3", "4", "5", "6", "7", "8", "9"}
\* characters c with c.isdigit(): the decimal digits and the digits that are
\* not decimal, of which "sup2" (U+00B2, superscript two) is the representative
DigitChars == AsciiDigits \cup {"sup2"}

DigitVal(c) ==
    CASE c = "0" -> 0 [] c = "1" -> 1 [] c = "2" -> 2 [] c = "3" -> 3
      [] c = "4" -> 4 [] c = "5" -> 5 [] c = "6" -> 6 [] c = "7" -> 7
      [] c = "8" -> 8 [] c = "9" -> 9

DigitChar(d) ==
    CASE d = 0 -> "0" [] d = 1 -> "1" [] d = 2 -> "2" [] d = 3 -> "3"
      [] d = 4 -> "4" [] d = 5 -> "5" [] d = 6 -> "6" [] d = 7 -> "7"
      [] d = 8 -> "8" [] d = 9 -> "9"

AmtNone == [kind |-> "none", chars |-> <<>>, val |-> 0]
AmtStr(cs) == [kind |-> "str", chars |-> cs, val |-> 0]
AmtInt(n) == [kind |-> "int", chars |-> <<>>, val |-> n]
\* the float ip.fp, e.g. AmtFloat(1, 5) is 1.5
AmtFloat(ip, fp) == [kind |-> "float", chars |-> <<DigitChar(fp)>>, val |-> ip]

\* str.isdigit()
isdigit(cs) == Len(cs) > 0 /\ \A i \in 1..Len(cs) : cs[i] \in DigitChars

RECURSIVE DecimalValue(_)
DecimalValue(cs) ==
    IF cs = <<>> THEN 0
    ELSE DecimalValue(SubSeq(cs, 1, Len(cs) - 1)) * 10 + DigitVal(cs[Len(cs)])

\* int(s) on a str: the value, or ValueError (ok = FALSE) when some character
\* is not a decimal digit
int(cs) ==
    IF Len(cs) > 0 /\ \A i \in 1..Len(cs) : cs[i] \in AsciiDigits
    THEN [ok |-> TRUE, val |-> DecimalValue(cs)]
    ELSE [ok |-> FALSE, val |-> 0]

RECURSIVE IntToStr(_)
\* str(n) for an int n >= 0
IntToStr(n) ==
    IF n < 10 THEN <<DigitChar(n)>>
    ELSE Append(IntToStr(n \div 10), DigitChar(n % 10))

\* str(raw_amt) for a JSON value that is not None
str(a) ==
    CASE a.kind = "str" -> a.chars
      [] a.kind = "int" -> IntToStr(a.val)
      [] a.kind = "float" -> IntToStr(a.val) \o <<".">> \o a.chars

----------------------------------------------------------------------------
(* extract_buyers_from_parsed_tx *)

MkOutput(m, to, user, a, d) ==
    [mint |-> m, toUserAccount |-> to, userAccount |-> user, amt |-> a, dec |-> d]
MkTransfer(m, to, a, d) ==
    [mint |-> m, toUserAccount |-> to, amt |-> a, dec |-> d]
MkTx(sg, t, fp, outs, inner, trs) ==
    [signature |-> sg, timestamp |-> t, feePayer |-> fp,
     tokenOutputs |-> outs, innerSwaps |-> inner, tokenTransfers |-> trs]
MkObs(w, a, d, sg, t) ==
    [wallet |-> w, amt |-> a, dec |-> d, sig |-> sg, ts |-> t]

RECURSIVE Flatten(_)
Flatten(ss) == IF ss = <<>> THEN <<>> ELSE Head(ss) \o Flatten(Tail(ss))

\* outputs = list(swap.tokenOutputs) + every inner swap's tokenOutputs
SwapOutputs(tx) == tx.tokenOutputs \o Flatten(tx.innerSwaps)

RECURSIVE SwapTier(_, _, _)
\* tier 1: the loop over outputs
SwapTier(outs, tx, mint) ==
    IF outs = <<>> THEN <<>>
    ELSE LET o == Head(outs)
             buyer == Or(o.toUserAccount, Or(o.userAccount, tx.feePayer))
         IN (IF o.mint = mint /\ Truthy(buyer)
             THEN <<MkObs(buyer, o.amt, o.dec, tx.signature, tx.timestamp)>>
             ELSE <<>>) \o SwapTier(Tail(outs), tx, mint)

RECURSIVE TransferTier(_, _, _)
\* tier 2: the loop over tokenTransfers
TransferTier(trs, tx, mint) ==
    IF trs = <<>> THEN <<>>
    ELSE LET t == Head(trs)
             buyer == Or(t.toUserAccount, tx.feePayer)
             raw == IF t.amt.kind = "none" THEN AmtNone ELSE AmtStr(str(t.amt))
         IN (IF t.mint = mint /\ Truthy(buyer)
             THEN <<MkObs(buyer, raw, t.dec, tx.signature, tx.timestamp)>>
             ELSE <<>>) \o TransferTier(Tail(trs), tx, mint)

\* variant: the fallback runs whatever tier 1 produced
UseFallback_Always(out) == TRUE

\* if not out: the fallback runs only when tier 1 produced nothing
UseFallback(out) == out = <<>>

extract_buyers_from_parsed_tx(tx, mint) ==
    LET out == SwapTier(SwapOutputs(tx), tx, mint)
    IN out \o (IF UseFallback(out) THEN TransferTier(tx.tokenTransfers, tx, mint)
               ELSE <<>>)

----------------------------------------------------------------------------
(* The aggregator: the body of the loop over observations in main() *)

\* raw_int = int(amt) if isinstance(amt, str) and amt.isdigit() else 0
raw_int(amt) ==
    IF amt.kind = "str" /\ isdigit(amt.chars) THEN int(amt.chars)
    ELSE [ok |-> TRUE, val |-> 0]

NewEntry(o, r) ==
    [wallet |-> o.wallet, first_ts |-> Val(o.ts), last_ts |-> Val(o.ts), tx_count |-> 1,
     raw_total |-> r, decimals |-> o.dec, example_sig |-> o.sig]

UpdateEntry(e, o, r) ==
    [e EXCEPT !.first_ts = Min(e.first_ts, Val(o.ts)),
              !.last_ts = Max(e.last_ts, Val(o.ts)),
              !.tx_count = e.tx_count + 1,
              !.raw_total = e.raw_total + r,
              !.decimals = IF IsNone(e.decimals) /\ ~IsNone(o.dec)
                           THEN o.dec ELSE e.decimals]

\* A dict is the list of its items <<key, value>> in insertion order.
dict_keys(d) == {d[i][1] : i \in 1..Len(d)}

\* d.get(k), defined when k is a key
dict_get(d, k) == d[CHOOSE i \in 1..Len(d) : d[i][1] = k][2]

\* d[k] = v: replaces the value of an existing key, appends a new key
dict_set(d, k, v) ==
    IF k \in dict_keys(d)
    THEN [i \in 1..Len(d) |-> IF d[i][1] = k THEN <<k, v>> ELSE d[i]]
    ELSE Append(d, <<k, v>>)

\* variant: records keyed by the signature of the observation
AggKey_BySig(o) == o.sig

\* the key under which an observation is looked up and stored
AggKey(o) == o.wallet

\* one iteration; the caller has checked raw_int(o.amt).ok, and main() has
\* checked that the timestamp is present
FoldOne(agg, o) ==
    LET r == raw_int(o.amt).val
    IN IF AggKey(o) \notin dict_keys(agg)
       THEN dict_set(agg, AggKey(o), NewEntry(o, r))
       ELSE dict_set(agg, AggKey(o), UpdateEntry(dict_get(agg, AggKey(o)), o, r))

RECURSIVE FoldAll(_, _, _)
\* the loop over one transaction's observations; stops at the observation
\* whose int() raises.  done = observations folded, ok = no exception
FoldAll(agg, obs, done) ==
    IF obs = <<>> THEN [agg |-> agg, done |-> done, ok |-> TRUE, at |-> <<>>]
    ELSE IF ~raw_int(Head(obs).amt).ok
         THEN [agg |-> agg, done |-> done, ok |-> FALSE, at |-> <<Head(obs)>>]
         ELSE FoldAll(FoldOne(agg, Head(obs)), Tail(obs), Append(done, Head(obs)))

----------------------------------------------------------------------------
(* rpc and fetch_signatures_in_window *)

MkItem(sg, bt) == [signature |-> sg, blockTime |-> bt]
\* the decoded body of one getSignaturesForAddress call
MkRes(ok, e, result) == [http_ok |-> ok, error |-> e, result |-> result]

\* variant: the error field of the response is not looked at
RpcRaises_HttpOnly(res) == ~res.http_ok

\* rpc(): http_post raises on a failed call, rpc raises on an error field
RpcRaises(res) == ~res.http_ok \/ res.error

\* variant: no upper bound
InWindow_NoUpper(bt, lo, hi) == lo <= bt

\* start_ts <= bt <= end_ts
InWindow(bt, lo, hi) == lo <= bt /\ bt <= hi

\* variant: the window start itself ends the walk
BelowWindow_Inclusive(bt, lo) == bt <= lo

\* bt < start_ts
BelowWindow(bt, lo) == bt < lo

RECURSIVE ScanBatch(_, _, _, _)
\* the for loop over one page: ret = TRUE when it returned from the function
ScanBatch(batch, lo, hi, acc) ==
    IF batch = <<>> THEN [sigs |-> acc, ret |-> FALSE]
    ELSE LET bt == Head(batch).blockTime
         IN IF IsNone(bt) THEN ScanBatch(Tail(batch), lo, hi, acc)
            ELSE IF BelowWindow(Val(bt), lo) THEN [sigs |-> acc, ret |-> TRUE]
            ELSE IF InWindow(Val(bt), lo, hi)
                 THEN ScanBatch(Tail(batch), lo, hi, Append(acc, Head(batch).signature))
                 ELSE ScanBatch(Tail(batch), lo, hi, acc)

\* variant: the cursor is the first signature of the page
NextCursor_First(batch) == batch[1].signature

\* before = batch[-1]["signature"]
NextCursor(batch) == batch[Len(batch)].signature

\* One iteration of the while loop, given the response to its request.
FetchIter(res) ==
    /\ fpc = "loop"
    /\ cursors' = Append(cursors, IF Truthy(before) THEN before ELSE NoneStr)
    /\ IF RpcRaises(res)
       THEN /\ fpc' = "raised"
            /\ UNCHANGED <<sigs, before, pages, served, exit_by>>
       ELSE /\ pages' = pages + 1
            /\ served' = Append(served, res.result)
            /\ IF res.result = <<>>
               THEN /\ fpc' = "returned"
                    /\ exit_by' = "empty"
                    /\ UNCHANGED <<sigs, before>>
               ELSE LET r == ScanBatch(res.result, start_ts, end_ts, sigs)
                    IN /\ sigs' = r.sigs
                       /\ IF r.ret
                          THEN /\ fpc' = "returned"
                               /\ exit_by' = "early"
                               /\ UNCHANGED before
                          ELSE /\ before' = NextCursor(res.result)
                               /\ UNCHANGED <<fpc, exit_by>>
    /\ UNCHANGED <<start_ts, end_ts, history, limit>>

\* the state at the call of fetch_signatures_in_window(api_key, address, lo, hi)
FetchCall(lo, hi, hist, lim) ==
    /\ start_ts' = lo
    /\ end_ts' = hi
    /\ sigs' = <<>>
    /\ before' = NoneStr
    /\ pages' = 0
    /\ fpc' = "loop"
    /\ history' = hist
    /\ limit' = lim
    /\ cursors' = <<>>
    /\ served' = <<>>
    /\ exit_by' = "none"

----------------------------------------------------------------------------
(* The indexing RPC as a static history: a page holds the entries strictly   *)
(* older than the cursor, newest first, at most limit of them.               *)

SigNames == <<"S1", "S2", "S3", "S4", "S5", "S6">>

PosOf(hist, sg) ==
    IF \E i \in 1..Len(hist) : hist[i].signature = sg
    THEN CHOOSE i \in 1..Len(hist) : hist[i].signature = sg
    ELSE 0

StaticPage(hist, cur, lim) ==
    LET from == IF cur = NoneStr THEN 0 ELSE PosOf(hist, cur)
    IN SubSeq(hist, from + 1, Min(from + lim, Len(hist)))

----------------------------------------------------------------------------
(* main *)

\* variant: no deduplication
Dedup_None(ss, seen) == ss

RECURSIVE Dedup(_, _)
\* list(dict.fromkeys(sigs)): first occurrences, in order
Dedup(ss, seen) ==
    IF ss = <<>> THEN <<>>
    ELSE IF Head(ss) \in seen THEN Dedup(Tail(ss), seen)
    ELSE <<Head(ss)>> \o Dedup(Tail(ss), seen \cup {Head(ss)})

RECURSIVE InsertAsc(_, _)
InsertAsc(rows, r) ==
    IF rows = <<>> THEN <<r>>
    ELSE IF Head(rows).first_ts <= r.first_ts
         THEN <<Head(rows)>> \o InsertAsc(Tail(rows), r)
         ELSE <<r>> \o rows

RECURSIVE SortedRows(_)
\* sorted(buyers_agg.values(), key=first_ts): stable
SortedRows(d) ==
    IF d = <<>> THEN <<>>
    ELSE InsertAsc(SortedRows(SubSeq(d, 1, Len(d) - 1)), d[Len(d)][2])

\* variant: no upper bound on the timestamp
SkipTx_NoUpper(tx) == IsNone(tx.timestamp) \/ ~(START_TS <= Val(tx.timestamp))

\* t is None or not (START_TS <= t <= END_TS)
SkipTx(tx) ==
    IsNone(tx.timestamp) \/ ~(START_TS <= Val(tx.timestamp) /\ Val(tx.timestamp) <= END_TS)

\* sigs[i : i + PARSE_BATCH]
Chunk(ss, i) == SubSeq(ss, i + 1, Min(i + PARSE_BATCH, Len(ss)))

mainIdle == <<pairs, pool_i, chunk_i, parsed, buyers_agg, csv_rows, csv_open,
              folded, arrived, submitted, handled, skipped>>

\* api_key = os.getenv(...); if not api_key: raise SystemExit
CheckKey ==
    /\ pc = "start"
    /\ IF ~Truthy(api_key)
       THEN pc' = "exit" /\ err' = "SystemExit: key"
       ELSE pc' = "discover" /\ UNCHANGED err
    /\ UNCHANGED <<api_key, failure, mainIdle, fetchVars, pdVars, exVars>>

\* pairs = get_top_pairs_from_dexscreener(MINT, TOP_POOLS); if not pairs: exit
Discover(http_ok, data) ==
    /\ pc = "discover"
    /\ failure' = (failure \/ ~http_ok)
    /\ IF ~http_ok
       THEN pc' = "raised" /\ err' = "HTTPError" /\ UNCHANGED <<pairs, pool_i>>
       ELSE /\ pairs' = get_top_pairs_from_dexscreener(data, MINT, TOP_POOLS)
            /\ pool_i' = 1
            /\ IF pairs' = <<>>
               THEN pc' = "exit" /\ err' = "SystemExit: no pairs"
               ELSE pc' = "pool" /\ UNCHANGED err
    /\ UNCHANGED <<api_key, chunk_i, parsed, buyers_agg, csv_rows, csv_open,
                   folded, arrived, submitted, handled, skipped, fetchVars, pdVars, exVars>>

\* for p in pairs: the two skips, then the call of the fetcher
PoolTop ==
    /\ pc = "pool"
    /\ pool_i <= Len(pairs)
    /\ LET p == pairs[pool_i]
       IN IF ~Truthy(p.pairAddress) \/ (p.base # MINT /\ p.quote # MINT)
          THEN /\ pool_i' = pool_i + 1
               /\ UNCHANGED <<pc, fetchVars>>
          ELSE /\ FetchCall(START_TS, END_TS, <<>>, SIG_PAGE_LIMIT)
               /\ pc' = "fetch"
               /\ UNCHANGED pool_i
    /\ UNCHANGED <<api_key, err, failure, pairs, chunk_i, parsed, buyers_agg,
                   csv_rows, csv_open, folded, arrived, submitted, handled, skipped,
                   pdVars, exVars>>

\* one page of the fetcher inside main; an exception of rpc ends the run
RunFetch(res) ==
    /\ pc = "fetch"
    /\ FetchIter(res)
    /\ failure' = (failure \/ ~res.http_ok \/ res.error)
    /\ IF fpc' = "raised"
       THEN pc' = "raised" /\ err' = (IF res.http_ok THEN "RuntimeError" ELSE "HTTPError")
       ELSE UNCHANGED <<pc, err>>
    /\ UNCHANGED <<api_key, mainIdle, pdVars, exVars>>

\* sigs = list(dict.fromkeys(sigs)), and the entry of the batch loop
AfterFetch ==
    /\ pc = "fetch"
    /\ fpc = "returned"
    /\ sigs' = Dedup(sigs, {})
    /\ fpc' = "idle"
    /\ chunk_i' = 0
    /\ pc' = "batch"
    \* the fetcher's locals are gone
    /\ before' = NoneStr /\ pages' = 0
    /\ cursors' = <<>> /\ served' = <<>> /\ exit_by' = "none"
    /\ UNCHANGED <<start_ts, end_ts, history, limit>>
    /\ UNCHANGED <<api_key, err, failure, pairs, pool_i, parsed, buyers_agg,
                   csv_rows, csv_open, folded, arrived, submitted, handled, skipped,
                   pdVars, exVars>>

\* for i in range(0, len(sigs), PARSE_BATCH): parsed = http_post(chunk)
PostBatch(http_ok, body) ==
    /\ pc = "batch"
    /\ chunk_i < Len(sigs)
    /\ submitted' = submitted \o [j \in 1..Len(Chunk(sigs, chunk_i)) |->
                                    <<pool_i, Chunk(sigs, chunk_i)[j]>>]
    /\ failure' = (failure \/ ~http_ok)
    /\ IF ~http_ok
       THEN pc' = "raised" /\ err' = "HTTPError" /\ UNCHANGED parsed
       ELSE pc' = "tx" /\ parsed' = body /\ UNCHANGED err
    /\ UNCHANGED <<api_key, pairs, pool_i, chunk_i, buyers_agg, csv_rows,
                   csv_open, folded, arrived, handled, skipped, fetchVars, pdVars, exVars>>

\* the batch loop is exhausted: next pool
BatchesDone ==
    /\ pc = "batch"
    /\ chunk_i >= Len(sigs)
    /\ pool_i' = pool_i + 1
    /\ pc' = "pool"
    /\ UNCHANGED <<api_key, err, failure, pairs, chunk_i, parsed, buyers_agg,
                   csv_rows, csv_open, folded, arrived, submitted, handled, skipped,
                   fetchVars, pdVars, exVars>>

\* for tx in parsed: the timestamp check, the extraction and the fold
ProcessTx ==
    /\ pc = "tx"
    /\ parsed # <<>>
    /\ parsed' = Tail(parsed)
    /\ LET tx == Head(parsed)
       IN IF SkipTx(tx)
          THEN /\ skipped' = Append(skipped, tx)
               /\ UNCHANGED <<pc, err, buyers_agg, folded, arrived, handled>>
          ELSE LET r == FoldAll(buyers_agg, extract_buyers_from_parsed_tx(tx, MINT), <<>>)
                   Tag(os) == [j \in 1..Len(os) |-> <<pool_i, os[j]>>]
               IN /\ buyers_agg' = r.agg
                  /\ folded' = folded \o Tag(r.done)
                  /\ arrived' = arrived \o Tag(r.done \o r.at)
                  /\ handled' = Append(handled, <<pool_i, tx.signature>>)
                  /\ IF r.ok THEN UNCHANGED <<pc, err>>
                     ELSE pc' = "raised" /\ err' = "ValueError"
                  /\ UNCHANGED skipped
    /\ UNCHANGED <<api_key, failure, pairs, pool_i, chunk_i, csv_rows, csv_open,
                   submitted, fetchVars, pdVars, exVars>>

\* the batch is processed: i advances by PARSE_BATCH
BatchDone ==
    /\ pc = "tx"
    /\ parsed = <<>>
    /\ chunk_i' = chunk_i + PARSE_BATCH
    /\ pc' = "batch"
    /\ UNCHANGED <<api_key, err, failure, pairs, pool_i, parsed, buyers_agg,
                   csv_rows, csv_open, folded, arrived, submitted, handled, skipped,
                   fetchVars, pdVars, exVars>>

\* after the pool loop: sort the rows, open the file and write them
Report ==
    /\ pc = "pool"
    /\ pool_i > Len(pairs)
    /\ csv_open' = TRUE
    /\ csv_rows' = SortedRows(buyers_agg)
    /\ pc' = "done"
    /\ UNCHANGED <<api_key, err, failure, pairs, pool_i, chunk_i, parsed,
                   buyers_agg, folded, arrived, submitted, handled, skipped,
                   fetchVars, pdVars, exVars>>

----------------------------------------------------------------------------
(* Bounds and input universes *)

MaxData == 3        \* pairs in the market endpoint's list
MaxTopN == 2        \* top_n
MaxOutputs == 1     \* direct token outputs of a swap event
MaxInner == 1       \* inner swap legs
MaxTransfers == 1   \* token transfers per transaction
MaxPages == 2       \* page requests of one fetch, arbitrary RPC
MaxHist == 4        \* entries of a static history
MaxRunData == 2     \* pairs in the market endpoint's list, whole run
MaxRunPages == 2    \* page requests per pool, whole run

\* two pairs of equal score, a better pair without the mint, a pair without
\* liquidity or volume, a pair without an address
PairUniverse ==
    { MkPair("PA", MINT, "OTHER", Some(1), None),
      MkPair("PB", "OTHER", MINT, None, Some(10)),
      MkPair("PC", "OTHER", "OTHER", Some(2), Some(3)),
      MkPair("PD", MINT, "OTHER", None, None),
      MkPair(NoneStr, MINT, "OTHER", Some(3), None) }

Times == {START_TS - 1, START_TS, END_TS, END_TS + 1}
BlockTimes == {None} \cup {Some(t) : t \in Times}

\* window boundaries of SpecFetch: the entry at START_TS is below the window
\* [END_TS, END_TS], the entry at END_TS is above [START_TS, START_TS]
WindowTimes == {START_TS, END_TS}

\* entries an arbitrary RPC may serve: one signature per block time
AnyItems ==
    { MkItem("S1", None), MkItem("S2", Some(START_TS - 1)),
      MkItem("S3", Some(START_TS)), MkItem("S4", Some(END_TS)) }

\* a failed call, an error response, or any page within the requested limit
AnyResponses ==
    {MkRes(FALSE, FALSE, <<>>), MkRes(TRUE, TRUE, <<>>)}
    \cup {MkRes(TRUE, FALSE, b) : b \in SeqsUpTo(AnyItems, SIG_PAGE_LIMIT)}

\* static histories: entry i carries signature SigNames[i]
Histories ==
    {[i \in 1..Len(bts) |-> MkItem(SigNames[i], bts[i])] :
        bts \in SeqsUpTo(BlockTimes, MaxHist)}

\* outputs: recipient given, only the user account given, neither given
\* (the fee payer decides), another mint
OutputUniverse ==
    { MkOutput(MINT, "W1", NoneStr, AmtStr(<<"7">>), Some(6)),
      MkOutput(MINT, "", "W2", AmtStr(<<"7">>), Some(6)),
      MkOutput(MINT, NoneStr, NoneStr, AmtStr(<<"7">>), Some(6)),
      MkOutput("OTHER", "W1", NoneStr, AmtStr(<<"7">>), Some(6)) }
TransferUniverse ==
    { MkTransfer(MINT, "W3", AmtInt(12), None),
      MkTransfer(MINT, NoneStr, AmtNone, None),
      MkTransfer("OTHER", "W3", AmtInt(12), None) }
\* an inner swap leg: without outputs or with one
LegUniverse == {<<>>} \cup {<<o>> : o \in OutputUniverse}
TxUniverse ==
    {MkTx("S1", Some(START_TS), fp, outs, inner, trs) :
        fp \in {NoneStr, "", "FP"},
        outs \in SeqsUpTo(OutputUniverse, MaxOutputs),
        inner \in SeqsUpTo(LegUniverse, MaxInner),
        trs \in SeqsUpTo(TransferUniverse, MaxTransfers)}

----------------------------------------------------------------------------
(* Idle values of the parts a specification does not exercise *)

PdIdle ==
    pd_data = <<>> /\ pd_top_n = 1 /\ pd_out = <<>> /\ pd_pc = "idle"
ExIdle ==
    /\ ex_tx = MkTx("S1", None, NoneStr, <<>>, <<>>, <<>>)
    /\ ex_out = <<>> /\ ex_pc = "idle"
FetchIdle ==
    /\ start_ts = START_TS /\ end_ts = END_TS /\ sigs = <<>> /\ before = NoneStr
    /\ pages = 0 /\ fpc = "idle" /\ history = <<>> /\ limit = SIG_PAGE_LIMIT
    /\ cursors = <<>> /\ served = <<>> /\ exit_by = "none"
MainIdle ==
    /\ pc = "idle" /\ api_key = NoneStr /\ pairs = <<>> /\ pool_i = 1
    /\ chunk_i = 0 /\ parsed = <<>> /\ buyers_agg = <<>> /\ csv_rows = <<>>
    /\ csv_open = FALSE /\ err = "none" /\ failure = FALSE /\ folded = <<>>
    /\ arrived = <<>> /\ submitted = <<>> /\ handled = <<>> /\ skipped = <<>>

----------------------------------------------------------------------------
(* SpecPairs: get_top_pairs_from_dexscreener on every bounded input *)

PairsCall ==
    /\ pd_pc = "call"
    /\ pd_out' = get_top_pairs_from_dexscreener(pd_data, MINT, pd_top_n)
    /\ pd_pc' = "returned"
    /\ UNCHANGED <<pd_data, pd_top_n, exVars, fetchVars, mainVars>>

InitPairs ==
    /\ pd_data \in SeqsUpTo(PairUniverse, MaxData)
    /\ pd_top_n \in 1..MaxTopN
    /\ pd_out = <<>>
    /\ pd_pc = "call"
    /\ ExIdle /\ FetchIdle /\ MainIdle

NextPairs == PairsCall

SpecPairs == InitPairs /\ [][NextPairs]_vars

----------------------------------------------------------------------------
(* SpecExtract: extract_buyers_from_parsed_tx on every bounded transaction *)

ExtractCall ==
    /\ ex_pc = "call"
    /\ ex_out' = extract_buyers_from_parsed_tx(ex_tx, MINT)
    /\ ex_pc' = "returned"
    /\ UNCHANGED <<ex_tx, pdVars, fetchVars, mainVars>>

InitExtract ==
    /\ ex_tx \in TxUniverse
    /\ ex_out = <<>>
    /\ ex_pc = "call"
    /\ PdIdle /\ FetchIdle /\ MainIdle

NextExtract == ExtractCall

SpecExtract == InitExtract /\ [][NextExtract]_vars

----------------------------------------------------------------------------
(* SpecFetch: fetch_signatures_in_window against an arbitrary RPC *)

FetchAny ==
    /\ pages < MaxPages
    /\ \E res \in AnyResponses : FetchIter(res)
    /\ UNCHANGED <<pdVars, exVars, mainVars>>

InitFetch ==
    /\ start_ts \in WindowTimes /\ end_ts \in WindowTimes /\ start_ts <= end_ts
    /\ sigs = <<>> /\ before = NoneStr /\ pages = 0 /\ fpc = "loop"
    /\ history = <<>> /\ limit = SIG_PAGE_LIMIT
    /\ cursors = <<>> /\ served = <<>> /\ exit_by = "none"
    /\ PdIdle /\ ExIdle /\ MainIdle

NextFetch == FetchAny

SpecFetch == InitFetch /\ [][NextFetch]_vars

----------------------------------------------------------------------------
(* SpecStatic: fetch_signatures_in_window against a static history *)

FetchStatic ==
    /\ FetchIter(MkRes(TRUE, FALSE,
                       StaticPage(history, IF Truthy(before) THEN before ELSE NoneStr,
                                  limit)))
    /\ UNCHANGED <<pdVars, exVars, mainVars>>

InitStatic ==
    /\ start_ts = START_TS /\ end_ts = END_TS
    /\ sigs = <<>> /\ before = NoneStr /\ pages = 0 /\ fpc = "loop"
    /\ history \in Histories /\ limit \in 1..SIG_PAGE_LIMIT
    /\ cursors = <<>> /\ served = <<>> /\ exit_by = "none"
    /\ PdIdle /\ ExIdle /\ MainIdle

NextStatic == FetchStatic

\* the loop is sequential code: an enabled iteration is eventually taken
SpecStatic == InitStatic /\ [][NextStatic]_vars /\ WF_vars(NextStatic)

----------------------------------------------------------------------------
(* Spec: a whole run of main() *)

\* the market endpoint's pairs during a run: two pools with the mint, a
\* better pair without it, the best pair without an address
RunPairUniverse ==
    { MkPair("PA", MINT, "OTHER", Some(2), None),
      MkPair("PB", "OTHER", MINT, None, Some(10)),
      MkPair("PC", "OTHER", "OTHER", Some(2), Some(3)),
      MkPair(NoneStr, MINT, "OTHER", Some(3), None) }

\* the endpoint lists a pair once
RunData ==
    {d \in SeqsUpTo(RunPairUniverse, MaxRunData) :
        \A i, j \in 1..Len(d) : i # j => d[i] # d[j]}

\* the pages the RPC may serve during a run: the empty page, a page that
\* repeats a signature, two signatures, a signature followed by an entry
\* below the window, a single signature
RunPages ==
    { <<>>,
      <<MkItem("S1", Some(START_TS)), MkItem("S1", Some(START_TS))>>,
      <<MkItem("S2", Some(END_TS)), MkItem("S1", Some(START_TS))>>,
      <<MkItem("S1", Some(START_TS)), MkItem("S4", Some(START_TS - 1))>>,
      <<MkItem("S2", Some(END_TS))>> }

RunResponses ==
    {MkRes(FALSE, FALSE, <<>>), MkRes(TRUE, TRUE, <<>>)}
    \cup {MkRes(TRUE, FALSE, b) : b \in RunPages}

\* the transactions the parsing endpoint may return for a signature
RunTxs(sg) ==
    { \* a swap output to W1 and a transfer to W2
      MkTx(sg, Some(START_TS), "FP",
           <<MkOutput(MINT, "W1", NoneStr, AmtStr(<<"1", "5">>), Some(6))>>, <<>>,
           <<MkTransfer(MINT, "W2", AmtInt(3), None)>>),
      \* transfers only: a numeric amount to the fee payer W1, a float to W2
      MkTx(sg, Some(END_TS), "W1", <<>>, <<>>,
           <<MkTransfer(MINT, NoneStr, AmtInt(7), None),
             MkTransfer(MINT, "W2", AmtFloat(1, 5), Some(9))>>),
      \* an inner swap: a signed amount to W1, a numeric amount to W2
      MkTx(sg, Some(START_TS + 1), "FP", <<>>,
           <<<<MkOutput(MINT, "W1", NoneStr, AmtStr(<<"-", "5">>), Some(9)),
               MkOutput(MINT, NoneStr, "W2", AmtInt(4), None)>>>>, <<>>),
      \* no timestamp
      MkTx(sg, None, "FP",
           <<MkOutput(MINT, "W1", NoneStr, AmtStr(<<"1", "5">>), Some(6))>>, <<>>, <<>>),
      \* a timestamp after the window
      MkTx(sg, Some(END_TS + 1), "FP",
           <<MkOutput(MINT, "W1", NoneStr, AmtStr(<<"1", "5">>), Some(6))>>, <<>>, <<>>),
      \* an amount that is a digit but not a decimal digit
      MkTx(sg, Some(END_TS), "FP",
           <<MkOutput(MINT, "W2", NoneStr, AmtStr(<<"sup2">>), Some(6))>>, <<>>, <<>>) }

\* the bodies the parsing endpoint may return for a batch: one transaction
\* per submitted signature
RunBodies(chunk) ==
    {b \in SeqsUpTo(UNION {RunTxs(sg) : sg \in {"S1", "S2"}}, Len(chunk)) :
        /\ Len(b) = Len(chunk)
        /\ \A j \in 1..Len(b) : b[j].signature = chunk[j]}

Init ==
    /\ pc = "start"
    /\ api_key \in {NoneStr, "", "KEY"}
    /\ pairs = <<>> /\ pool_i = 1 /\ chunk_i = 0 /\ parsed = <<>>
    /\ buyers_agg = <<>> /\ csv_rows = <<>> /\ csv_open = FALSE
    /\ err = "none" /\ failure = FALSE /\ folded = <<>> /\ arrived = <<>>
    /\ submitted = <<>> /\ handled = <<>> /\ skipped = <<>>
    /\ PdIdle /\ ExIdle /\ FetchIdle

Next ==
    \/ CheckKey
    \/ \E data \in RunData : Discover(TRUE, data)
    \/ Discover(FALSE, <<>>)
    \/ PoolTop
    \/ (pages < MaxRunPages /\ \E res \in RunResponses : RunFetch(res))
    \/ AfterFetch
    \/ \E body \in RunBodies(Chunk(sigs, chunk_i)) : PostBatch(TRUE, body)
    \/ PostBatch(FALSE, <<>>)
    \/ BatchesDone
    \/ ProcessTx
    \/ BatchDone
    \/ Report

Spec == Init /\ [][Next]_vars

----------------------------------------------------------------------------
(* Properties of get_top_pairs_from_dexscreener (SpecPairs) *)

\* the one ordering of the indices of data by descending score in which
\* equal scores keep their input order
StableRank(data) ==
    CHOOSE r \in [1..Len(data) -> 1..Len(data)] :
        /\ \A i, j \in 1..Len(data) : i # j => r[i] # r[j]
        /\ \A i, j \in 1..Len(data) : i < j =>
              \/ score(data[r[i]]) > score(data[r[j]])
              \/ score(data[r[i]]) = score(data[r[j]]) /\ r[i] < r[j]

RankedWithMint(data) ==
    LET ranked == [i \in 1..Len(data) |-> data[StableRank(data)[i]]]
        HasMint(p) == p.base = MINT \/ p.quote = MINT
    IN SelectSeq(ranked, HasMint)

\* C5: for every list of pairs and every N >= 1 the function returns the
\* first min(N, m) of the m pairs that include the mint, taken in stable
\* descending score order; it never returns a pair without the mint, never
\* more than N pairs, and returns the empty list exactly when m = 0.
C5_TopPairs ==
    pd_pc = "returned" =>
        LET keep == RankedWithMint(pd_data)
            m == Len(keep)
        IN /\ pd_out = SubSeq(keep, 1, Min(pd_top_n, m))
           /\ \A i \in 1..Len(pd_out) : pd_out[i].base = MINT \/ pd_out[i].quote = MINT
           /\ Len(pd_out) <= pd_top_n
           /\ (pd_out = <<>>) <=> (m = 0)

\* a call whose list holds two pairs with the mint and equal score, behind a
\* better pair without the mint, with more matching pairs than N
C5_Witness ==
    /\ pd_pc = "returned"
    /\ Len(RankedWithMint(pd_data)) > pd_top_n
    /\ \E i, j, k \in 1..Len(pd_data) :
          /\ i < j
          /\ score(pd_data[i]) = score(pd_data[j])
          /\ pd_data[i] # pd_data[j]
          /\ pd_data[i].quote = MINT /\ pd_data[j].base = MINT
          /\ pd_data[k].base # MINT /\ pd_data[k].quote # MINT
          /\ score(pd_data[k]) > score(pd_data[i])
    /\ pd_out # <<>>

----------------------------------------------------------------------------
(* Properties of extract_buyers_from_parsed_tx (SpecExtract) *)

\* the swap outputs of tx that name the mint and resolve to a buyer
Resolved(o, tx) ==
    IF o.toUserAccount \notin {NoneStr, ""} THEN o.toUserAccount
    ELSE IF o.userAccount \notin {NoneStr, ""} THEN o.userAccount
    ELSE tx.feePayer

SwapMatches(tx) ==
    LET Match(o) == o.mint = MINT /\ Resolved(o, tx) \notin {NoneStr, ""}
    IN SelectSeq(SwapOutputs(tx), Match)

\* C2: when at least one swap output (direct or inner leg) names the mint and
\* resolves to a buyer, the result is exactly the observations of those swap
\* outputs, in order, and no token transfer contributes an observation.
C2_SwapTierWins ==
    (ex_pc = "returned" /\ SwapMatches(ex_tx) # <<>>) =>
        LET ms == SwapMatches(ex_tx)
        IN /\ Len(ex_out) = Len(ms)
           /\ \A i \in 1..Len(ms) :
                 ex_out[i] = MkObs(Resolved(ms[i], ex_tx), ms[i].amt, ms[i].dec,
                                   ex_tx.signature, ex_tx.timestamp)

\* a transaction with a matching inner-swap output and a matching transfer
C2_Witness ==
    /\ ex_pc = "returned"
    /\ ex_tx.tokenOutputs = <<>>
    /\ SwapMatches(ex_tx) # <<>>
    /\ \E i \in 1..Len(ex_tx.tokenTransfers) :
          /\ ex_tx.tokenTransfers[i].mint = MINT
          /\ ex_tx.tokenTransfers[i].toUserAccount = "W3"
    /\ Len(ex_out) = 1

----------------------------------------------------------------------------
(* Properties of fetch_signatures_in_window *)

\* the block time the chain records for a signature of AnyItems
BlockTimeOf(sg) == (CHOOSE it \in AnyItems : it.signature = sg).blockTime

\* C1: whatever pages the RPC returns, every collected signature has a
\* present block time inside [start_ts, end_ts].
C1_OnlyInWindow ==
    \A i \in 1..Len(sigs) :
        /\ BlockTimeOf(sigs[i]) # None
        /\ start_ts <= BlockTimeOf(sigs[i])[1]
        /\ BlockTimeOf(sigs[i])[1] <= end_ts

\* a returned fetch that collected a signature and was served an entry
\* without block time and an entry above the window
C1_Witness ==
    /\ fpc = "returned"
    /\ sigs # <<>>
    /\ \E k \in 1..Len(served) : \E i \in 1..Len(served[k]) :
          served[k][i].blockTime = None
    /\ \E k \in 1..Len(served) : \E i \in 1..Len(served[k]) :
          /\ served[k][i].blockTime # None
          /\ served[k][i].blockTime[1] > end_ts

\* positions of history whose block time is present and below START_TS
BelowPositions == {i \in 1..Len(history) :
                      history[i].blockTime # None /\ history[i].blockTime[1] < START_TS}
FirstBelow == CHOOSE i \in BelowPositions : \A j \in BelowPositions : i <= j

Walked == Flatten(served)
WalkedBeforeLast == Flatten(SubSeq(served, 1, Len(served) - 1))

C8_Exits ==
    fpc = "returned" =>
        /\ exit_by \in {"early", "empty"}
        /\ Walked = SubSeq(history, 1, Len(Walked))
        /\ exit_by = "early" =>
              /\ BelowPositions # {}
              /\ Len(WalkedBeforeLast) < FirstBelow
              /\ FirstBelow <= Len(Walked)
        /\ exit_by = "empty" =>
              /\ served[Len(served)] = <<>>
              /\ BelowPositions = {}
              /\ Walked = history

C8_Cursors ==
    /\ Len(cursors) >= 1 => cursors[1] = NoneStr
    /\ \A k \in 2..Len(cursors) :
          /\ served[k - 1] # <<>>
          /\ cursors[k] = served[k - 1][Len(served[k - 1])].signature

\* C8: against a static history the loop terminates, either at the first
\* entry with a present block time below start_ts or on an empty page, and
\* each request carries the last signature of the previous non-empty page.
C8_Terminates == <>(fpc = "returned") /\ [](C8_Exits /\ C8_Cursors)

\* an early return on the second or a later page
C8_Witness ==
    /\ fpc = "returned"
    /\ exit_by = "early"
    /\ pages >= 2
    /\ sigs # <<>>

NonIncreasing ==
    \A i, j \in 1..Len(history) :
        (i < j /\ history[i].blockTime # None /\ history[j].blockTime # None)
            => history[i].blockTime[1] >= history[j].blockTime[1]

InWindowOfHistory ==
    LET In(it) == /\ it.blockTime # None
                  /\ START_TS <= it.blockTime[1]
                  /\ it.blockTime[1] <= END_TS
        kept == SelectSeq(history, In)
    IN [i \in 1..Len(kept) |-> kept[i].signature]

\* C10: when the present block times of a static history never increase
\* along the walk, the fetch returns every signature with a present block
\* time in the window, in history order.
C10_Complete ==
    (fpc = "returned" /\ NonIncreasing) => sigs = InWindowOfHistory

\* an early return over a non-increasing history with an entry without
\* block time between two in-window entries
C10_Witness ==
    /\ fpc = "returned"
    /\ exit_by = "early"
    /\ NonIncreasing
    /\ Len(sigs) >= 2
    /\ \E i, j, k \in 1..Len(history) :
          /\ i < j /\ j < k
          /\ history[j].blockTime = None
          /\ history[i].signature = sigs[1]
          /\ history[k].signature = sigs[2]

----------------------------------------------------------------------------
(* Properties of a whole run (Spec) *)

\* the observations of wallet w among the tagged observations obs, in order
ObsOf(obs, w) ==
    LET Mine(x) == x[2].wallet = w
        mine == SelectSeq(obs, Mine)
    IN [i \in 1..Len(mine) |-> mine[i][2]]

WalletsOf(obs) == {obs[i][2].wallet : i \in 1..Len(obs)}

\* what an amount adds to raw_total: its value when it is a string of
\* decimal digits only, 0 otherwise
Contribution(amt) ==
    IF amt.kind = "str" /\ amt.chars # <<>>
       /\ \A i \in 1..Len(amt.chars) : amt.chars[i] \in AsciiDigits
    THEN DecimalValue(amt.chars)
    ELSE 0

RECURSIVE SumContributions(_)
SumContributions(os) ==
    IF os = <<>> THEN 0
    ELSE Contribution(Head(os).amt) + SumContributions(Tail(os))

\* the record the claims prescribe for a wallet with observations os
Reference(w, os) ==
    LET withDec == {i \in 1..Len(os) : os[i].dec # None}
        tss == {os[i].ts[1] : i \in 1..Len(os)}
    IN [wallet |-> w,
        first_ts |-> CHOOSE t \in tss : \A u \in tss : t <= u,
        last_ts |-> CHOOSE t \in tss : \A u \in tss : t >= u,
        tx_count |-> Len(os),
        raw_total |-> SumContributions(os),
        decimals |-> IF withDec = {} THEN None
                     ELSE os[CHOOSE i \in withDec : \A j \in withDec : i <= j].dec,
        example_sig |-> os[1].sig]

\* C3: buyers_agg holds exactly one record per wallet folded so far, across
\* pools and batches; the record is stored under its own wallet address and
\* accumulates the wallet's observations from every pool.
C3_OneRecordPerWallet ==
    /\ \A i, j \in 1..Len(buyers_agg) : i # j => buyers_agg[i][1] # buyers_agg[j][1]
    /\ \A i \in 1..Len(buyers_agg) : buyers_agg[i][2].wallet = buyers_agg[i][1]
    /\ {buyers_agg[i][2].wallet : i \in 1..Len(buyers_agg)} = WalletsOf(folded)
    /\ \A i \in 1..Len(buyers_agg) :
          LET os == ObsOf(folded, buyers_agg[i][2].wallet)
          IN /\ buyers_agg[i][2].tx_count = Len(os)
             /\ buyers_agg[i][2].raw_total = SumContributions(os)

\* a wallet folded from a transaction of the first pool and from one of the
\* second pool
C3_Witness ==
    /\ \E i, j \in 1..Len(folded) :
          /\ folded[i][1] = 1 /\ folded[j][1] = 2
          /\ folded[i][2].wallet = folded[j][2].wallet
    /\ Len(buyers_agg) = 2

C4_Bounds ==
    \A i \in 1..Len(buyers_agg) :
        /\ START_TS <= buyers_agg[i][2].first_ts
        /\ buyers_agg[i][2].first_ts <= buyers_agg[i][2].last_ts
        /\ buyers_agg[i][2].last_ts <= END_TS

C4_SkipStep ==
    (/\ pc = "tx" /\ parsed # <<>>
     /\ \/ Head(parsed).timestamp = None
        \/ Head(parsed).timestamp[1] < START_TS
        \/ Head(parsed).timestamp[1] > END_TS)
    => (buyers_agg' = buyers_agg /\ err' = err /\ pc' = pc)

C6_FoldIsReference ==
    /\ WalletsOf(arrived) \subseteq dict_keys(buyers_agg)
    /\ \A i \in 1..Len(buyers_agg) :
          buyers_agg[i][2] = Reference(buyers_agg[i][1], ObsOf(arrived, buyers_agg[i][1]))

\* C7: the output file is opened and written only at natural completion:
\* never after a missing credential, an empty pool list, a failed HTTP call
\* or an RPC error response, whatever buyers_agg holds.
C7_ReportOnlyOnCompletion ==
    /\ csv_open =>
          /\ pc = "done" /\ err = "none" /\ ~failure
          /\ api_key \notin {NoneStr, ""}
          /\ pairs # <<>>
          /\ pool_i > Len(pairs)
    /\ ~csv_open => csv_rows = <<>>
    /\ failure => pc = "raised"
    /\ (pc = "discover" \/ pc = "pool" \/ pc = "fetch") => api_key \notin {NoneStr, ""}
    /\ (pc = "pool" \/ pc = "fetch" \/ pc = "batch" \/ pc = "tx") => pairs # <<>>

\* an RPC error response in the second pool, after the first pool filled
\* buyers_agg: the run is over and no file exists
C7_Witness ==
    /\ pc = "raised"
    /\ err = "RuntimeError"
    /\ pool_i = 2
    /\ buyers_agg # <<>>
    /\ ~csv_open

NoRepeat(q) == \A i, j \in 1..Len(q) : i # j => q[i] # q[j]

\* C9 as stated: over the whole run no signature is submitted to the parsing
\* endpoint more than once.
C9_SubmittedOncePerRun ==
    \A i, j \in 1..Len(submitted) : i # j => submitted[i][2] # submitted[j][2]

\* C9 amended: within the scan of one pool no signature is submitted to the
\* parsing endpoint more than once, and no transaction is folded more than
\* once for that pool.
C9_SubmittedOncePerPool == NoRepeat(submitted) /\ NoRepeat(handled)

\* the same signature submitted and folded for the first and the second pool
C9_Witness ==
    /\ \E i, j \in 1..Len(submitted) :
          /\ submitted[i][1] = 1 /\ submitted[j][1] = 2
          /\ submitted[i][2] = submitted[j][2]
    /\ \E i, j \in 1..Len(handled) :
          /\ handled[i][1] = 1 /\ handled[j][1] = 2
          /\ handled[i][2] = handled[j][2]

=============================================================================
